---- MODULE Spec2Model ----
(***************************************************************************)
(* SEMS core/AmSipSubscription.cpp: the per-dialog subscription set        *)
(* (AmSipSubscription) and the per-subscription state machine             *)
(* (SingleSubscription), as a state machine.                               *)
(*                                                                         *)
(* A SingleSubscription lives at an address; the subscription list holds   *)
(* addresses in insertion order and the CSeq maps hold list iterators,     *)
(* i.e. addresses.  delete returns the address to the allocator, which may *)
(* hand it out again.  Every handler is one atomic action: transitions of  *)
(* sub_state are serialised by sub_state_mut, and the set and the maps     *)
(* belong to one owner at a time.                                          *)
(***************************************************************************)
EXTENDS Integers, Sequences, FiniteSets, TLC

\* ------------------------------------------------------------------ bounds
\* addresses the allocator has; requests the SIP layer hands over, in all and
\* in one direction
MaxSubs == 2
MaxReq == 3
MaxCSeq == 2
\* provisional replies dispatched
MaxProv == 1
\* requests the SIP layer hands over in all, under SpecLive
LiveReq == 2

Addr == 1..MaxSubs
End == 0

\* ------------------------------------------------------- program constants
SubState_init == "init"
SubState_notify_wait == "notify_wait"
SubState_pending == "pending"
SubState_active == "active"
SubState_terminated == "terminated"

Subscriber == "Subscriber"
Notifier == "Notifier"

SIP_METH_SUBSCRIBE == "SUBSCRIBE"
SIP_METH_REFER == "REFER"
SIP_METH_NOTIFY == "NOTIFY"
SIP_METH_INVITE == "INVITE"

RFC6665_TIMER_N == "RFC6665_TIMER_N"
SUBSCRIPTION_EXPIRE == "SUBSCRIPTION_EXPIRE"
TimerIds == {RFC6665_TIMER_N, SUBSCRIPTION_EXPIRE}

\* ------------------------------------------------------------------ inputs
Methods == {SIP_METH_SUBSCRIBE, SIP_METH_REFER, SIP_METH_NOTIFY, SIP_METH_INVITE}

\* An Event header: its token and its id parameter ("" when there is none).
EventHF(token, id) == [token |-> token, id |-> id]
NoEventHF == EventHF("", "")

\* Event headers a request of a method carries: REFER and INVITE carry none.
EventsOf(method) ==
  IF method = SIP_METH_SUBSCRIBE
  THEN {EventHF("presence", "1")}
  ELSE IF method = SIP_METH_NOTIFY
       THEN {EventHF("presence", "1"), EventHF("presence", ""),
             EventHF("refer", "")}
       ELSE {NoEventHF}

\* An integer-valued header or header parameter as received: absent, not a
\* number, or a number.
HdrAbsent == [kind |-> "absent", val |-> 0]
HdrGarbage == [kind |-> "garbage", val |-> 0]
HdrNum(n) == [kind |-> "num", val |-> n]
\* Expires headers of replies, expires parameters of Subscription-State
ExpiresHFs == {HdrAbsent, HdrGarbage, HdrNum(0), HdrNum(60)}
ExpiresParams == {HdrAbsent, HdrNum(0), HdrNum(60), HdrNum(-1)}

\* Subscription-State headers of NOTIFY requests
SubStateHF(token, expires) == [token |-> token, expires |-> expires]
SubStateHFs ==
  {SubStateHF("active", e) : e \in ExpiresParams}
    \cup {SubStateHF("pending", HdrNum(0)), SubStateHF("pending", HdrNum(60)),
          SubStateHF("terminated", HdrNum(60))}

\* failure codes replyFSM may be given: the four it singles out and others
FailureCodes == {300, 404, 405, 408, 481, 489, 500, 501, 603}

\* codes of replies other than those the core sends itself
ProvisionalCodes == {180}
FinalCodes == {200, 404, 481}

\* values get_random() may return
RandVals == {10, 19}

RemoteTag == "rtag"

\* ------------------------------------------------------------------- state
VARIABLES
  subs,           \* AmSipSubscription::subs: the list, as addresses in order
  heap,           \* the SingleSubscription object at each address
  live,           \* the addresses that hold an object (not yet deleted)
  uac_cseq_map,   \* CSeq -> iterator, UAC transactions
  uas_cseq_map,   \* CSeq -> iterator, UAS transactions
  remote_tag,     \* dlg->remote_tag
  usages,         \* dlg: incUsages() calls minus decUsages() calls
  ev_q,           \* whether an event queue was given to the constructor
  uac_cseq,       \* the CSeq of the last request sent
  uas_cseq,       \* the CSeq of the last request received
  uac_trans,      \* CSeq -> the client transactions that await a final reply
  uas_trans,      \* CSeq -> the server transactions that await a final reply
  used,           \* the addresses the allocator has handed out so far: 1..used
  nprov,          \* the provisional replies dispatched so far
  run,            \* "running", "destroyed" (destructor ran) or "crashed"
  last            \* the last handler that ran, its input and what it returned

vars == <<subs, heap, live, uac_cseq_map, uas_cseq_map, remote_tag, usages,
          ev_q, uac_cseq, uas_cseq, uac_trans, uas_trans, used, nprov, run, last>>

\* ----------------------------------------------------------------- helpers
Digits == <<"0", "1", "2", "3", "4", "5", "6", "7", "8", "9">>

RECURSIVE int2str(_)
int2str(n) ==
  IF n < 10 THEN Digits[n + 1] ELSE int2str(n \div 10) \o Digits[(n % 10) + 1]

\* str2int on a header value: whether it parsed, and the number
str2int(h) == [ok |-> h.kind = "num", val |-> IF h.kind = "num" THEN h.val ELSE 0]

\* expires_txt.empty()
HdrEmpty(h) == h.kind = "absent"

strip_header_params(ev) == ev.token
get_header_param_id(ev) == ev.id

SeqToSet(s) == {s[i] : i \in 1..Len(s)}

RECURSIVE Remove(_, _)
Remove(s, a) ==
  IF s = <<>> THEN <<>>
  ELSE IF Head(s) = a THEN Tail(s)
  ELSE <<Head(s)>> \o Remove(Tail(s), a)

\* the memory at an address that holds no object
Blank ==
  [role |-> "", event |-> "", id |-> "", sub_state |-> "free",
   pending_subscribe |-> 0, timer_n |-> FALSE,
   timer_expires |-> [armed |-> FALSE, dur |-> 0, by |-> ""],
   born |-> <<"", 0>>]

NoTimer == [armed |-> FALSE, dur |-> 0, by |-> ""]

\* ------------------------------------------------------ SingleSubscription
\* the constructor
NewSub(role, event, id, born) ==
  [role |-> role, event |-> event, id |-> id, sub_state |-> SubState_init,
   pending_subscribe |-> 0, timer_n |-> FALSE, timer_expires |-> NoTimer,
   born |-> born]

\* setState without the early return on a terminated subscription
setState_no_guard(s, st) ==
  IF st = SubState_terminated
  THEN [sub |-> [s EXCEPT !.sub_state = SubState_terminated], dec |-> 1]
  ELSE [sub |-> [s EXCEPT !.sub_state = st], dec |-> 0]

\* setState with the early return only on the way to terminated
setState_reactivate(s, st) ==
  IF st = SubState_terminated
  THEN IF s.sub_state = SubState_terminated
       THEN [sub |-> s, dec |-> 0]
       ELSE [sub |-> [s EXCEPT !.sub_state = SubState_terminated], dec |-> 1]
  ELSE [sub |-> [s EXCEPT !.sub_state = st], dec |-> 0]

\* setState: the new object and the number of dlg()->decUsages() calls made
setState(s, st) ==
  IF s.sub_state = SubState_terminated THEN [sub |-> s, dec |-> 0]
  ELSE IF st = SubState_terminated
       THEN [sub |-> [s EXCEPT !.sub_state = SubState_terminated], dec |-> 1]
       ELSE [sub |-> [s EXCEPT !.sub_state = st], dec |-> 0]

terminate(s) == setState(s, SubState_terminated)

terminated(s) == s.sub_state = SubState_terminated

\* makeSubscription that makes a subscriber for an unsolicited NOTIFY too
makeSubscription_notify(req, uac) ==
  LET role == IF uac THEN Subscriber ELSE Notifier
      born == <<IF uac THEN "uac" ELSE "uas", req.cseq>>
  IN  IF req.method \in {SIP_METH_SUBSCRIBE, SIP_METH_NOTIFY}
      THEN {NewSub(role, strip_header_params(req.event_hf),
                   get_header_param_id(req.event_hf), born)}
      ELSE IF req.method = SIP_METH_REFER
           THEN {NewSub(role, "refer", int2str(req.cseq), born)}
           ELSE {}

\* makeSubscription: the set holding the new object, empty for NULL
makeSubscription(req, uac) ==
  LET role == IF uac THEN Subscriber ELSE Notifier
      born == <<IF uac THEN "uac" ELSE "uas", req.cseq>>
  IN  IF req.method = SIP_METH_SUBSCRIBE
      THEN {NewSub(role, strip_header_params(req.event_hf),
                   get_header_param_id(req.event_hf), born)}
      ELSE IF req.method = SIP_METH_REFER
           THEN {NewSub(role, "refer", int2str(req.cseq), born)}
           ELSE {}

\* requestFSM that goes to NotifyWait from every state
requestFSM_always_wait(s, req) ==
  IF req.method \in {SIP_METH_SUBSCRIBE, SIP_METH_REFER}
  THEN [setState(s, SubState_notify_wait).sub EXCEPT !.timer_n = TRUE]
  ELSE s

\* requestFSM that leaves Timer N alone
requestFSM_no_timer(s, req) ==
  IF req.method \in {SIP_METH_SUBSCRIBE, SIP_METH_REFER}
     /\ s.sub_state = SubState_init
  THEN setState(s, SubState_notify_wait).sub
  ELSE s

\* requestFSM: Init -> NotifyWait, and Timer N (re)started
requestFSM(s, req) ==
  IF req.method \in {SIP_METH_SUBSCRIBE, SIP_METH_REFER}
  THEN LET s1 == IF s.sub_state = SubState_init
                 THEN setState(s, SubState_notify_wait).sub
                 ELSE s
       IN  [s1 EXCEPT !.timer_n = TRUE]
  ELSE s

\* a response the core sends through dlg->reply; retry_after is -1 without
\* a Retry-After header
Response(code, retry_after) == [code |-> code, retry_after |-> retry_after]

\* SingleSubscription::onRequestIn: the object, the return value, the
\* responses sent
SubOnRequestIn(s, req, rnd) ==
  IF req.method \in {SIP_METH_SUBSCRIBE, SIP_METH_REFER}
  THEN IF s.pending_subscribe # 0
       THEN [sub |-> s, ret |-> FALSE, replies |-> <<Response(500, rnd % 10)>>]
       ELSE [sub |-> requestFSM([s EXCEPT !.pending_subscribe = @ + 1], req),
             ret |-> TRUE, replies |-> <<>>]
  ELSE [sub |-> requestFSM(s, req), ret |-> TRUE, replies |-> <<>>]

SubOnRequestSent(s, req) ==
  IF req.method \in {SIP_METH_SUBSCRIBE, SIP_METH_REFER}
  THEN requestFSM([s EXCEPT !.pending_subscribe = @ + 1], req)
  ELSE requestFSM(s, req)

\* every client or server error ends the usage
UsageFatal_any(code) == code >= 400

\* the RFC 5057 codes that end a usage
UsageFatal(code) == code \in {405, 481, 489, 501}

\* What a reply does to the state: the object, the decUsages() calls made and
\* the state setState() was called with ("" when it was not called).
Called(s, st) ==
  [sub |-> setState(s, st).sub, dec |-> setState(s, st).dec, asked |-> st]

NotCalled(s) == [sub |-> s, dec |-> 0, asked |-> ""]

\* the SUBSCRIBE/REFER branch of replyFSM, a 2xx without a readable Expires
\* ending the subscription whatever the method
ReplyToSubscribe_any_method(s, reply) ==
  IF reply.code >= 300
  THEN IF s.sub_state = SubState_notify_wait
       THEN Called(s, SubState_terminated)
       ELSE IF UsageFatal(reply.code)
            THEN Called(s, SubState_terminated)
            ELSE NotCalled(s)
  ELSE LET sub_expires == str2int(reply.expires)
       IN  IF ~HdrEmpty(reply.expires) /\ sub_expires.ok
           THEN IF sub_expires.val # 0
                THEN NotCalled([s EXCEPT !.timer_expires =
                                  [armed |-> TRUE, dur |-> sub_expires.val,
                                   by |-> "Expires"]])
                ELSE NotCalled(s)
           ELSE Called(s, SubState_terminated)

\* replyFSM, final reply to SUBSCRIBE or REFER
ReplyToSubscribe(s, reply) ==
  IF reply.code >= 300
  THEN IF s.sub_state = SubState_notify_wait
       THEN Called(s, SubState_terminated)
       ELSE IF UsageFatal(reply.code)
            THEN Called(s, SubState_terminated)
            ELSE NotCalled(s)
  ELSE LET sub_expires == str2int(reply.expires)
       IN  IF ~HdrEmpty(reply.expires) /\ sub_expires.ok
           THEN IF sub_expires.val # 0
                THEN NotCalled([s EXCEPT !.timer_expires =
                                  [armed |-> TRUE, dur |-> sub_expires.val,
                                   by |-> "Expires"]])
                ELSE NotCalled(s)
           ELSE IF reply.cseq_method = SIP_METH_SUBSCRIBE
                THEN Called(s, SubState_terminated)
                ELSE NotCalled(s)

\* the NOTIFY branch of replyFSM without the removal of Timer N
ReplyToNotify_keep_n(s, req, reply) ==
  IF reply.code >= 300
  THEN IF UsageFatal(reply.code)
       THEN Called(s, SubState_terminated)
       ELSE NotCalled(s)
  ELSE LET expires_hf == req.sub_state_hf.expires
           notify_expire == IF ~HdrEmpty(expires_hf) THEN str2int(expires_hf).val ELSE 0
           sub_state_txt == req.sub_state_hf.token
           timers(r) == [r EXCEPT !.sub.timer_expires =
                                    [armed |-> TRUE, dur |-> notify_expire,
                                     by |-> "Subscription-State"]]
       IN  IF notify_expire # 0 /\ sub_state_txt = "active"
           THEN timers(Called(s, SubState_active))
           ELSE IF notify_expire # 0 /\ sub_state_txt = "pending"
                THEN timers(Called(s, SubState_pending))
                ELSE Called(s, SubState_terminated)

\* replyFSM, final reply to NOTIFY
ReplyToNotify(s, req, reply) ==
  IF reply.code >= 300
  THEN IF UsageFatal(reply.code)
       THEN Called(s, SubState_terminated)
       ELSE NotCalled(s)
  ELSE LET expires_hf == req.sub_state_hf.expires
           notify_expire == IF ~HdrEmpty(expires_hf) THEN str2int(expires_hf).val ELSE 0
           sub_state_txt == req.sub_state_hf.token
           timers(r) == [r EXCEPT !.sub.timer_n = FALSE,
                                  !.sub.timer_expires =
                                    [armed |-> TRUE, dur |-> notify_expire,
                                     by |-> "Subscription-State"]]
       IN  IF notify_expire # 0 /\ sub_state_txt = "active"
           THEN timers(Called(s, SubState_active))
           ELSE IF notify_expire # 0 /\ sub_state_txt = "pending"
                THEN timers(Called(s, SubState_pending))
                ELSE Called(s, SubState_terminated)

\* replyFSM: the object, the decUsages() calls, the state asked for, the
\* dialog's remote tag and whether pending_subscribe was decremented
replyFSM(s, tag, req, reply) ==
  IF reply.code < 200
  THEN [sub |-> s, dec |-> 0, asked |-> "", remote_tag |-> tag, pdec |-> FALSE]
  ELSE IF req.method \in {SIP_METH_SUBSCRIBE, SIP_METH_REFER}
       THEN LET r == ReplyToSubscribe(s, reply)
            IN  [sub |-> [r.sub EXCEPT !.pending_subscribe = @ - 1],
                 dec |-> r.dec, asked |-> r.asked,
                 remote_tag |-> IF reply.code < 300 /\ tag = ""
                                THEN reply.to_tag ELSE tag,
                 pdec |-> TRUE]
       ELSE IF reply.cseq_method = SIP_METH_NOTIFY
            THEN LET r == ReplyToNotify(s, req, reply)
                 IN  [sub |-> r.sub, dec |-> r.dec, asked |-> r.asked,
                      remote_tag |-> tag, pdec |-> FALSE]
            ELSE [sub |-> s, dec |-> 0, asked |-> "", remote_tag |-> tag,
                  pdec |-> FALSE]

\* onTimer that lets the timer lapse without terminate()
onTimer_lapse(s, timer_id) ==
  [sub |-> IF timer_id = RFC6665_TIMER_N
           THEN [s EXCEPT !.timer_n = FALSE]
           ELSE [s EXCEPT !.timer_expires = NoTimer],
   dec |-> 0]

\* onTimer: the timer that fired is no longer armed; terminate() under the
\* state lock
onTimer(s, timer_id) ==
  LET s1 == IF timer_id = RFC6665_TIMER_N
            THEN [s EXCEPT !.timer_n = FALSE]
            ELSE [s EXCEPT !.timer_expires = NoTimer]
  IN  terminate(s1)

\* ------------------------------------------------------- AmSipSubscription
\* The set as the matching code sees and changes it: the list, the objects,
\* the allocator, the dialog's usage count; `it` is the iterator returned and
\* `replies` the responses sent so far.
World ==
  [subs |-> subs, heap |-> heap, live |-> live, usages |-> usages,
   used |-> used, it |-> End, replies |-> <<>>]

\* delete with a destructor that leaves the timers with the timer wheel
DeleteSub_keep_timers(W, a) ==
  [W EXCEPT !.heap[a] = [Blank EXCEPT !.timer_n = W.heap[a].timer_n,
                                      !.timer_expires = W.heap[a].timer_expires],
            !.live = @ \ {a}, !.subs = Remove(@, a)]

\* delete *it; subs.erase(it): the destructor removes both timers
DeleteSub(W, a) ==
  [W EXCEPT !.heap[a] = Blank, !.live = @ \ {a}, !.subs = Remove(@, a)]

\* new: the addresses the allocator may return, a freed one or a fresh one
\* (the fresh ones are alike, so the next)
Allocatable(W) ==
  {a \in Addr \ W.live : a <= W.used + 1}

\* createSubscription: one outcome for each address the allocator may return
createSubscription(W, req, uac) ==
  LET made == makeSubscription(req, uac)
  IN  IF made = {}
      THEN {[W EXCEPT !.it = End, !.replies = Append(@, Response(501, -1))]}
      ELSE {[W EXCEPT !.heap[a] = sub, !.live = @ \cup {a},
                      !.subs = Append(@, a), !.usages = @ + 1, !.it = a,
                      !.used = IF a > @ THEN a ELSE @] :
              a \in Allocatable(W), sub \in made}

\* the role a request addresses
MatchRole(req, uac) ==
  IF req.method = SIP_METH_SUBSCRIBE
  THEN IF uac THEN Subscriber ELSE Notifier
  ELSE IF uac THEN Notifier ELSE Subscriber

\* the first subscription in list order the request matches, or End
FirstMatch(W, req, uac) ==
  LET event == strip_header_params(req.event_hf)
      id == get_header_param_id(req.event_hf)
      no_id == id = "" /\ event = "refer"
      hit(s) == /\ s.role = MatchRole(req, uac)
                /\ s.event = event
                /\ (no_id \/ s.id = id)
      hits == {i \in 1..Len(W.subs) : hit(W.heap[W.subs[i]])}
  IN  IF hits = {} THEN End
      ELSE W.subs[CHOOSE i \in hits : \A j \in hits : i <= j]

matchSubscription(W, tag, req, uac) ==
  IF tag = "" \/ req.method = SIP_METH_REFER \/ W.subs = <<>>
  THEN createSubscription(W, req, uac)
  ELSE IF req.method \notin {SIP_METH_SUBSCRIBE, SIP_METH_NOTIFY}
       THEN {[W EXCEPT !.it = End]}
       ELSE LET found == FirstMatch(W, req, uac)
                reap == found # End /\ terminated(W.heap[found])
                W1 == IF reap THEN DeleteSub(W, found) ELSE W
                match == IF reap THEN End ELSE found
            IN  IF match = End /\ req.method = SIP_METH_SUBSCRIBE
                THEN createSubscription(W1, req, uac)
                ELSE {[W1 EXCEPT !.it = match]}

\* ---------------------------------------------------- transaction records
\* What the transaction layer keeps of a request until its final reply: the
\* method, whether the subscription layer took the request (onRequestIn
\* returned true, onRequestSent found a subscription) and the final response
\* the core itself sent for it (0 for none).
Trans(method, taken, core) == [method |-> method, taken |-> taken, core |-> core]

\* a map entry: the iterator, and (for the properties) the object it was
\* recorded for
Entry(W) == [it |-> W.it, sub |-> W.heap[W.it].born]

\* The record of the last handler: its name, the iterator it worked on and
\* that subscription's state before, the responses it sent, its return value
\* (for onReplyIn / onReplySent: whether the CSeq was in the map), whether it
\* posted to the event queue, whether it decremented pending_subscribe and
\* whether it did so on a failure reply (code >= 300), the state it called
\* setState() with on a reply, whether it used a deleted object.
Last(op, it, pre, replies, ret, posted, pdec, asked, code, ub) ==
  [op |-> op, it |-> it, pre_state |-> pre.sub_state, replies |-> replies,
   ret |-> ret, posted |-> posted, pdec |-> pdec, asked |-> asked,
   failed |-> (pdec /\ code >= 300), ub |-> ub]

\* the requests the SIP layer may hand over with a CSeq
Requests(cseq) ==
  UNION {{[method |-> m, cseq |-> cseq, event_hf |-> e,
           sub_state_hf |-> [token |-> "", expires |-> HdrAbsent]] :
            e \in EventsOf(m)} : m \in Methods}

\* The request of a transaction as the reply handlers get it.  Of a NOTIFY
\* they read only the Subscription-State header, and only when a final reply
\* is dispatched.
SubStateOf(method, code) ==
  IF method = SIP_METH_NOTIFY /\ code >= 200 /\ code < 300
  THEN SubStateHFs
  ELSE {SubStateHF("", HdrAbsent)}

ExpiresOf(method, code) ==
  IF method \in {SIP_METH_SUBSCRIBE, SIP_METH_REFER} /\ code >= 200 /\ code < 300
  THEN ExpiresHFs ELSE {HdrAbsent}

\* the replies that may be dispatched for an open transaction: the one the
\* core sent itself, or else any
CodesOf(tr) ==
  IF tr.core # 0 THEN {tr.core}
  ELSE FinalCodes \cup (IF nprov < MaxProv THEN ProvisionalCodes ELSE {})

ReplyInputs(trans, cseq) ==
  LET m == trans[cseq].method
  IN  UNION {{[req |-> [method |-> m, cseq |-> cseq, event_hf |-> NoEventHF,
                        sub_state_hf |-> ss],
               reply |-> [code |-> code, cseq_method |-> m, expires |-> e,
                          to_tag |-> RemoteTag]] :
                ss \in SubStateOf(m, code), e \in ExpiresOf(m, code)} :
             code \in CodesOf(trans[cseq])}

MapErase(map, cseq) == [c \in DOMAIN map \ {cseq} |-> map[c]]

NoMap == [c \in {} |-> [it |-> End, sub |-> <<"", 0>>]]

NoTrans == [c \in {} |-> Trans("", FALSE, 0)]

\* a final reply ends the transaction
Replied(trans, cseq, code) ==
  IF code >= 200 THEN [c \in DOMAIN trans \ {cseq} |-> trans[c]] ELSE trans

\* The handlers of the set as operators on the current state: each gives
\* the set of its outcomes (one for each address the allocator may return,
\* one for each thing a use after free may do).  An outcome holds the set
\* after the handler (W), the handler's CSeq map after it (map), the
\* subscription worked on and its object before (it, pre), the responses
\* sent, and what the handler returned.

\* AmSipSubscription::onRequestIn
onRequestIn(req, rnd) ==
  {IF W.it = End \/ terminated(W.heap[W.it])
   THEN [W |-> W, map |-> uas_cseq_map, it |-> W.it, pre |-> Blank,
         replies |-> Append(W.replies, Response(481, -1)), ret |-> FALSE]
   ELSE LET r == SubOnRequestIn(W.heap[W.it], req, rnd)
        IN  [W |-> [W EXCEPT !.heap[W.it] = r.sub],
             map |-> (req.cseq :> Entry(W)) @@ uas_cseq_map,
             it |-> W.it, pre |-> W.heap[W.it],
             replies |-> W.replies \o r.replies, ret |-> r.ret] :
     W \in matchSubscription(World, remote_tag, req, FALSE)}

\* AmSipSubscription::onRequestSent; ret tells whether a subscription was
\* obtained
onRequestSent(req) ==
  {IF W.it = End
   THEN [W |-> W, map |-> uac_cseq_map, it |-> End, pre |-> Blank,
         replies |-> W.replies, ret |-> FALSE]
   ELSE [W |-> [W EXCEPT !.heap[W.it] = SubOnRequestSent(W.heap[W.it], req)],
         map |-> (req.cseq :> Entry(W)) @@ uac_cseq_map,
         it |-> W.it, pre |-> W.heap[W.it],
         replies |-> W.replies, ret |-> TRUE] :
     W \in matchSubscription(World, remote_tag, req, TRUE)}

\* the reply dispatch without the erase of a terminated subscription
DispatchReply_keep(map, req, reply) ==
  IF req.cseq \notin DOMAIN map
  THEN {[W |-> World, map |-> map, it |-> End, pre |-> Blank, ret |-> FALSE,
         remote_tag |-> remote_tag, pdec |-> FALSE, asked |-> "",
         ub |-> FALSE, crash |-> FALSE]}
  ELSE LET sub_it == map[req.cseq].it
           map1 == MapErase(map, req.cseq)
       IN  IF sub_it \in live
           THEN LET r == replyFSM(heap[sub_it], remote_tag, req, reply)
                IN  {[W |-> [World EXCEPT !.heap[sub_it] = r.sub,
                                          !.usages = @ - r.dec, !.it = sub_it],
                      map |-> map1, it |-> sub_it, pre |-> heap[sub_it],
                      ret |-> TRUE, remote_tag |-> r.remote_tag,
                      pdec |-> r.pdec, asked |-> r.asked, ub |-> FALSE,
                      crash |-> FALSE]}
           ELSE {[W |-> World, map |-> map1, it |-> sub_it, pre |-> Blank,
                  ret |-> TRUE, remote_tag |-> remote_tag, pdec |-> FALSE,
                  asked |-> "", ub |-> TRUE, crash |-> c] : c \in BOOLEAN}

\* onReplyIn / onReplySent on their map.  An entry whose iterator points at
\* a deleted object is a use after free: the process aborts (crash), or the
\* freed memory takes the writes and nothing is seen.  ret tells whether the
\* CSeq was in the map, pdec whether pending_subscribe was decremented.
DispatchReply(map, req, reply) ==
  IF req.cseq \notin DOMAIN map
  THEN {[W |-> World, map |-> map, it |-> End, pre |-> Blank, ret |-> FALSE,
         remote_tag |-> remote_tag, pdec |-> FALSE, asked |-> "",
         ub |-> FALSE, crash |-> FALSE]}
  ELSE LET sub_it == map[req.cseq].it
           map1 == MapErase(map, req.cseq)
       IN  IF sub_it \in live
           THEN LET r == replyFSM(heap[sub_it], remote_tag, req, reply)
                    W1 == [World EXCEPT !.heap[sub_it] = r.sub,
                                        !.usages = @ - r.dec, !.it = sub_it]
                IN  {[W |-> IF terminated(r.sub) THEN DeleteSub(W1, sub_it) ELSE W1,
                      map |-> map1, it |-> sub_it, pre |-> heap[sub_it],
                      ret |-> TRUE, remote_tag |-> r.remote_tag,
                      pdec |-> r.pdec, asked |-> r.asked, ub |-> FALSE,
                      crash |-> FALSE]}
           ELSE {[W |-> World, map |-> map1, it |-> sub_it, pre |-> Blank,
                  ret |-> TRUE, remote_tag |-> remote_tag, pdec |-> FALSE,
                  asked |-> "", ub |-> TRUE, crash |-> c] : c \in BOOLEAN}

\* AmSipSubscription::onReplyIn
onReplyIn(req, reply) == DispatchReply(uac_cseq_map, req, reply)

\* AmSipSubscription::onReplySent
onReplySent(req, reply) == DispatchReply(uas_cseq_map, req, reply)

\* AmSipSubscription::terminate: every subscription of the list, in order
RECURSIVE TerminateFrom(_, _)
TerminateFrom(W, i) ==
  IF i > Len(W.subs) THEN W
  ELSE LET r == terminate(W.heap[W.subs[i]])
       IN  TerminateFrom([W EXCEPT !.heap[W.subs[i]] = r.sub,
                                   !.usages = @ - r.dec], i + 1)

\* ------------------------------------------------------------------ actions
Init ==
  /\ subs = <<>>
  /\ heap = [a \in Addr |-> Blank]
  /\ live = {}
  /\ uac_cseq_map = NoMap
  /\ uas_cseq_map = NoMap
  /\ remote_tag \in {"", RemoteTag}
  /\ usages = 0
  /\ ev_q \in BOOLEAN
  /\ uac_cseq = 0
  /\ uas_cseq = 0
  /\ uac_trans = NoTrans
  /\ uas_trans = NoTrans
  /\ used = 0
  /\ nprov = 0
  /\ run = "running"
  /\ last = Last("init", End, Blank, <<>>, FALSE, FALSE, FALSE, "", 0, FALSE)

Commit(W) ==
  /\ subs' = W.subs
  /\ heap' = W.heap
  /\ live' = W.live
  /\ usages' = W.usages
  /\ used' = W.used

\* the process is gone: so are the set, the objects, the maps and the
\* transactions
Lost ==
  /\ subs' = <<>>
  /\ heap' = [a \in Addr |-> Blank]
  /\ live' = {}
  /\ uac_cseq_map' = NoMap
  /\ uas_cseq_map' = NoMap
  /\ uac_trans' = NoTrans
  /\ uas_trans' = NoTrans

\* the final response the core sent for a request itself, 0 for none
CoreCode(o) ==
  IF o.ret \/ o.replies = <<>> THEN 0 ELSE o.replies[Len(o.replies)].code

\* a request arrives from the peer
OnRequestIn ==
  /\ run = "running"
  /\ uac_cseq + uas_cseq < MaxReq
  /\ uas_cseq < MaxCSeq
  /\ uas_cseq' = uas_cseq + 1
  /\ \E req \in Requests(uas_cseq + 1), rnd \in RandVals :
       \E o \in onRequestIn(req, rnd) :
         /\ Commit(o.W)
         /\ uas_cseq_map' = o.map
         /\ uas_trans' = (req.cseq :> Trans(req.method, o.ret, CoreCode(o)))
                           @@ uas_trans
         /\ last' = Last("onRequestIn", o.it, o.pre, o.replies, o.ret, FALSE,
                         FALSE, "", 0, FALSE)
  /\ UNCHANGED <<uac_cseq_map, remote_tag, ev_q, uac_cseq, uac_trans, nprov,
                 run>>

\* a request was handed to the transport
OnRequestSent ==
  /\ run = "running"
  /\ uac_cseq + uas_cseq < MaxReq
  /\ uac_cseq < MaxCSeq
  /\ uac_cseq' = uac_cseq + 1
  /\ \E req \in Requests(uac_cseq + 1) :
       \E o \in onRequestSent(req) :
         /\ Commit(o.W)
         /\ uac_cseq_map' = o.map
         /\ uac_trans' = (req.cseq :> Trans(req.method, o.ret, 0)) @@ uac_trans
         /\ last' = Last("onRequestSent", o.it, o.pre, o.replies, o.ret,
                         FALSE, FALSE, "", 0, FALSE)
  /\ UNCHANGED <<uas_cseq_map, remote_tag, ev_q, uas_cseq, uas_trans, nprov,
                 run>>

\* onReplyIn runs for the reply `in` to the request with CSeq cseq
ReplyIn(cseq, in) ==
  /\ run = "running"
  /\ \E o \in onReplyIn(in.req, in.reply) :
       /\ last' = Last("onReplyIn", o.it, o.pre, <<>>, o.ret, FALSE,
                       o.pdec, o.asked, in.reply.code, o.ub)
       /\ nprov' = nprov + (IF in.reply.code < 200 THEN 1 ELSE 0)
       /\ remote_tag' = o.remote_tag
       /\ IF o.crash
          THEN /\ Lost
               /\ run' = "crashed"
               /\ UNCHANGED <<usages, used>>
          ELSE /\ Commit(o.W)
               /\ uac_cseq_map' = o.map
               /\ uac_trans' = Replied(uac_trans, cseq, in.reply.code)
               /\ UNCHANGED <<uas_cseq_map, uas_trans, run>>
  /\ UNCHANGED <<ev_q, uac_cseq, uas_cseq>>

\* onReplySent runs for the reply `in` to the request with CSeq cseq
ReplySent(cseq, in) ==
  /\ run = "running"
  /\ \E o \in onReplySent(in.req, in.reply) :
       /\ last' = Last("onReplySent", o.it, o.pre, <<>>, o.ret, FALSE,
                       o.pdec, o.asked, in.reply.code, o.ub)
       /\ nprov' = nprov + (IF in.reply.code < 200 THEN 1 ELSE 0)
       /\ remote_tag' = o.remote_tag
       /\ IF o.crash
          THEN /\ Lost
               /\ run' = "crashed"
               /\ UNCHANGED <<usages, used>>
          ELSE /\ Commit(o.W)
               /\ uas_cseq_map' = o.map
               /\ uas_trans' = Replied(uas_trans, cseq, in.reply.code)
               /\ UNCHANGED <<uac_cseq_map, uac_trans, run>>
  /\ UNCHANGED <<ev_q, uac_cseq, uas_cseq>>

\* a reply to a request of ours arrives
OnReplyIn ==
  \E cseq \in DOMAIN uac_trans :
    \E in \in ReplyInputs(uac_trans, cseq) : ReplyIn(cseq, in)

\* a reply to a request of the peer was sent
OnReplySent ==
  \E cseq \in DOMAIN uas_trans :
    \E in \in ReplyInputs(uas_trans, cseq) : ReplySent(cseq, in)

TimerArmed(s, timer_id) ==
  IF timer_id = RFC6665_TIMER_N THEN s.timer_n ELSE s.timer_expires.armed

\* SubscriptionTimer::fire -> SingleSubscription::onTimer
TimerFire(a, timer_id) ==
  /\ run = "running"
  /\ a \in live
  /\ TimerArmed(heap[a], timer_id)
  /\ LET r == onTimer(heap[a], timer_id)
     IN  /\ heap' = [heap EXCEPT ![a] = r.sub]
         /\ usages' = usages - r.dec
         /\ last' = Last("onTimer", a, heap[a], <<>>, FALSE, ev_q, FALSE, "", 0,
                         FALSE)
  /\ UNCHANGED <<subs, live, uac_cseq_map, uas_cseq_map, remote_tag, ev_q,
                 uac_cseq, uas_cseq, uac_trans, uas_trans, used, nprov, run>>

OnTimer == \E a \in Addr, timer_id \in TimerIds : TimerFire(a, timer_id)

\* the owner calls AmSipSubscription::terminate
Terminate ==
  /\ run = "running"
  /\ Commit(TerminateFrom(World, 1))
  /\ last' = Last("terminate", End, Blank, <<>>, FALSE, FALSE, FALSE, "", 0,
                  FALSE)
  /\ UNCHANGED <<uac_cseq_map, uas_cseq_map, remote_tag, ev_q, uac_cseq,
                 uas_cseq, uac_trans, uas_trans, nprov, run>>

\* the owner deletes the set: AmSipSubscription::~AmSipSubscription
Destroy ==
  /\ run = "running"
  /\ Lost
  /\ run' = "destroyed"
  /\ last' = Last("destroy", End, Blank, <<>>, FALSE, FALSE, FALSE, "", 0, FALSE)
  /\ UNCHANGED <<remote_tag, usages, ev_q, uac_cseq, uas_cseq, used, nprov>>

Next ==
  \/ OnRequestIn
  \/ OnRequestSent
  \/ OnReplyIn
  \/ OnReplySent
  \/ OnTimer
  \/ Terminate
  \/ Destroy

Spec == Init /\ [][Next]_vars

\* The same program with fewer requests and with the timer wheel
\* (AmAppTimer) at work: a timer that stays armed fires.
LiveRequestIn == OnRequestIn /\ uac_cseq' + uas_cseq' <= LiveReq

LiveRequestSent == OnRequestSent /\ uac_cseq' + uas_cseq' <= LiveReq

NextLive ==
  \/ LiveRequestIn
  \/ LiveRequestSent
  \/ OnReplyIn
  \/ OnReplySent
  \/ OnTimer
  \/ Terminate
  \/ Destroy

SpecLive ==
  /\ Init
  /\ [][NextLive]_vars
  /\ \A a \in Addr : WF_vars(TimerFire(a, RFC6665_TIMER_N))

\* ------------------------------------------------------- the state lock
\* What a call does with sub_state and sub_state_mut, in program order:
\* "lock" and "unlock" for lockState() and unlockState(), "get" for a read
\* of sub_state and "set" for a write.
getState_acc == <<"get">>

setState_acc(s, st) ==
  IF terminated(s) THEN <<"get">> ELSE <<"get", "set">>

terminate_acc(s) == setState_acc(s, SubState_terminated)

terminated_acc == getState_acc

Locked(acc) == <<"lock">> \o acc \o <<"unlock">>

onTimer_acc(s) == Locked(terminate_acc(s))

requestFSM_acc(s) ==
  Locked(getState_acc \o
           (IF s.sub_state = SubState_init
            THEN setState_acc(s, SubState_notify_wait) ELSE <<>>))

SubOnRequestIn_acc(s, req) ==
  IF req.method \in {SIP_METH_SUBSCRIBE, SIP_METH_REFER} /\ s.pending_subscribe # 0
  THEN <<>>
  ELSE requestFSM_acc(s)

replyFSM_acc(s, req, reply) ==
  IF reply.code < 200 THEN <<>>
  ELSE IF req.method \in {SIP_METH_SUBSCRIBE, SIP_METH_REFER}
       THEN IF reply.code >= 300
            THEN Locked(getState_acc \o
                          (IF s.sub_state = SubState_notify_wait
                              \/ UsageFatal(reply.code)
                           THEN terminate_acc(s) ELSE <<>>))
            ELSE IF ~HdrEmpty(reply.expires) /\ str2int(reply.expires).ok
                 THEN <<>>
                 ELSE IF reply.cseq_method = SIP_METH_SUBSCRIBE
                      THEN Locked(terminate_acc(s)) ELSE <<>>
       ELSE IF reply.cseq_method = SIP_METH_NOTIFY
            THEN IF reply.code >= 300
                 THEN IF UsageFatal(reply.code)
                      THEN Locked(terminate_acc(s)) ELSE <<>>
                 ELSE Locked(setState_acc(s, ReplyToNotify(s, req, reply).asked))
            ELSE <<>>

\* AmSipSubscription::terminate on one subscription of the list
TerminateFrom_acc(s) == Locked(terminate_acc(s))

\* onReplyIn / onReplySent on the subscription of the map entry
DispatchReply_acc(s, req, reply) ==
  replyFSM_acc(s, req, reply) \o terminated_acc

\* matchSubscription where it finds a subscription; then onRequestIn on a
\* subscription that is not terminated
onRequestIn_acc(s, req) ==
  terminated_acc \o
    (IF terminated(s) THEN <<>>
     ELSE terminated_acc \o SubOnRequestIn_acc(s, req))

\* every read and write of the accesses lies between a lock and its unlock
Guarded(acc) ==
  \A i \in 1..Len(acc) :
    acc[i] \in {"get", "set"} =>
      Cardinality({j \in 1..(i - 1) : acc[j] = "lock"})
        > Cardinality({j \in 1..(i - 1) : acc[j] = "unlock"})

\* ------------------------------------------------ replyFSM, one reply
\* The reply handlers on a set that holds one subscription, in any of the
\* conditions a subscription of a running dialog is found in, with one
\* transaction open for it; the reply may carry any code of FsmCodes.
FsmCodes == {200, 202} \cup FailureCodes

\* the timers a subscription has armed in a state: Timer N runs throughout
\* NotifyWait; a pending or active subscription got its expiry timer from
\* the NOTIFY that made it so, or since from a 2xx reply to a refresh
FsmTimers(st) ==
  LET by_reply == [armed |-> TRUE, dur |-> 60, by |-> "Expires"]
      by_notify == {[armed |-> TRUE, dur |-> d, by |-> "Subscription-State"] :
                      d \in {60, -1}}
  IN  IF st = SubState_notify_wait
      THEN {[n |-> TRUE, e |-> e] : e \in {NoTimer, by_reply}}
      ELSE IF st = SubState_terminated
           THEN {[n |-> n, e |-> e] :
                   n \in BOOLEAN, e \in {NoTimer, by_reply} \cup by_notify}
           ELSE {[n |-> n, e |-> e] :
                   n \in BOOLEAN, e \in {by_reply} \cup by_notify}

FsmSubs ==
  UNION {{[role |-> role, event |-> "presence", id |-> "1", sub_state |-> st,
           pending_subscribe |-> p, timer_n |-> t.n, timer_expires |-> t.e,
           born |-> <<IF role = Subscriber THEN "uac" ELSE "uas", 1>>] :
            role \in {Subscriber, Notifier}, p \in 0..2, t \in FsmTimers(st)} :
         st \in {SubState_notify_wait, SubState_pending, SubState_active,
                 SubState_terminated}}

\* the side a request of the method is on: the subscriber sends SUBSCRIBE
\* and REFER, the notifier sends NOTIFY
FsmUac(role, method) == (role = Subscriber) = (method # SIP_METH_NOTIFY)

FsmMap(it, s) == 1 :> [it |-> it, sub |-> s.born]

InitFSM ==
  /\ subs = <<1>>
  /\ heap \in {[a \in Addr |-> IF a = 1 THEN s ELSE Blank] : s \in FsmSubs}
  /\ live = {1}
  /\ uac_trans \in {NoTrans} \cup
       {1 :> Trans(m, TRUE, 0) :
          m \in {x \in {SIP_METH_SUBSCRIBE, SIP_METH_REFER, SIP_METH_NOTIFY} :
                   FsmUac(heap[1].role, x)}}
  /\ uas_trans \in
       IF uac_trans # NoTrans THEN {NoTrans}
       ELSE {1 :> Trans(m, TRUE, 0) :
               m \in {x \in {SIP_METH_SUBSCRIBE, SIP_METH_REFER, SIP_METH_NOTIFY} :
                        ~FsmUac(heap[1].role, x)}}
  /\ uac_cseq_map = IF uac_trans # NoTrans THEN FsmMap(1, heap[1]) ELSE NoMap
  /\ uas_cseq_map = IF uas_trans # NoTrans THEN FsmMap(1, heap[1]) ELSE NoMap
  /\ remote_tag \in {"", RemoteTag}
  /\ usages = IF terminated(heap[1]) THEN 0 ELSE 1
  /\ ev_q \in BOOLEAN
  /\ uac_cseq = 1
  /\ uas_cseq = 1
  /\ used = 1
  /\ nprov = 0
  /\ run = "running"
  /\ last = Last("init", End, Blank, <<>>, FALSE, FALSE, FALSE, "", 0, FALSE)

FsmReplyInputs(trans, cseq) ==
  LET m == trans[cseq].method
  IN  UNION {{[req |-> [method |-> m, cseq |-> cseq, event_hf |-> NoEventHF,
                        sub_state_hf |-> ss],
               reply |-> [code |-> code, cseq_method |-> m, expires |-> e,
                          to_tag |-> RemoteTag]] :
                ss \in SubStateOf(m, code), e \in ExpiresOf(m, code)} :
             code \in FsmCodes \cup
                        (IF nprov < MaxProv THEN ProvisionalCodes ELSE {})}

FsmReplyIn ==
  \E cseq \in DOMAIN uac_trans :
    \E in \in FsmReplyInputs(uac_trans, cseq) : ReplyIn(cseq, in)

FsmReplySent ==
  \E cseq \in DOMAIN uas_trans :
    \E in \in FsmReplyInputs(uas_trans, cseq) : ReplySent(cseq, in)

NextFSM ==
  \/ FsmReplyIn
  \/ FsmReplySent

SpecFSM == InitFSM /\ [][NextFSM]_vars

\* --------------------------------------------------------------- properties

\* C1: every entry of uac_cseq_map and of uas_cseq_map refers to a
\* subscription that is still in the subscription list: its iterator is in
\* the list, and the object there is the one the entry was recorded for.
C1_MapEntriesPresent ==
  run = "running" =>
    \A map \in {uac_cseq_map, uas_cseq_map} : \A c \in DOMAIN map :
      /\ map[c].it \in SeqToSet(subs)
      /\ heap[map[c].it].born = map[c].sub

\* C2: the incUsages() calls minus the decUsages() calls made on the dialog
\* equal the number of subscriptions in the list that are not terminated.
C2_UsagesCountLiveSubs ==
  run = "running" =>
    usages = Cardinality({i \in 1..Len(subs) : ~terminated(heap[subs[i]])})

\* C2, its case: a timer fired on a subscription that was terminated already
\* (by the other timer, by terminate()) and is still in the list.
C2_TerminatedTwice ==
  /\ run = "running"
  /\ last.op = "onTimer"
  /\ last.pre_state = SubState_terminated
  /\ last.it \in SeqToSet(subs)

\* C3: terminated is absorbing: a subscription that is terminated and that a
\* step leaves in place is terminated after the step.
C3_TerminatedAbsorbing ==
  [][\A a \in Addr :
       (/\ a \in live
        /\ terminated(heap[a])
        /\ a \in live'
        /\ heap'[a].born = heap[a].born) => terminated(heap'[a])]_vars

\* C3, its case: a 2xx reply to a NOTIFY whose Subscription-State is active
\* or pending was dispatched to a terminated subscription.
C3_ReplyOnTerminated ==
  /\ run = "running"
  /\ last.op \in {"onReplyIn", "onReplySent"}
  /\ last.pre_state = SubState_terminated
  /\ last.asked \in {SubState_active, SubState_pending}

\* C4: pending_subscribe of every subscription is never negative.
C4_PendingNonNegative ==
  \A a \in live : heap[a].pending_subscribe >= 0

\* C5: the list holds at most one subscription that is not terminated for an
\* identity (role, event, id).
C5_OnePerIdentity ==
  \A i, j \in 1..Len(subs) :
    (/\ i # j
     /\ ~terminated(heap[subs[i]])
     /\ ~terminated(heap[subs[j]])
     /\ heap[subs[i]].role = heap[subs[j]].role
     /\ heap[subs[i]].event = heap[subs[j]].event) =>
       heap[subs[i]].id # heap[subs[j]].id


\* C6: a final reply delivered for the CSeq of a SUBSCRIBE or REFER that was
\* admitted (UAS) or sent with a subscription (UAC) decrements
\* pending_subscribe, whatever replies were delivered for that CSeq before.
\* The step that ends such a transaction is the delivery of its final reply.
C6_FinalReplyDecrements ==
  [][/\ \A c \in DOMAIN uac_trans :
          (/\ last'.op = "onReplyIn"
           /\ run' = "running"
           /\ ~last'.ub
           /\ c \notin DOMAIN uac_trans'
           /\ uac_trans[c].method \in {SIP_METH_SUBSCRIBE, SIP_METH_REFER}
           /\ uac_trans[c].taken) => last'.pdec
     /\ \A c \in DOMAIN uas_trans :
          (/\ last'.op = "onReplySent"
           /\ run' = "running"
           /\ ~last'.ub
           /\ c \notin DOMAIN uas_trans'
           /\ uas_trans[c].method \in {SIP_METH_SUBSCRIBE, SIP_METH_REFER}
           /\ uas_trans[c].taken) => last'.pdec]_vars

\* C7: an inbound SUBSCRIBE or REFER matched to a subscription with
\* pending_subscribe > 0 is answered 500 with a Retry-After in 0..9, is
\* refused (false), and leaves the objects, the list and the CSeq maps as
\* they were (onRequestIn has no access to uac_cseq_map).
C7_RefusalLeavesStateUnchanged ==
  run = "running" =>
    \A req \in Requests(uas_cseq + 1), rnd \in RandVals :
      \A o \in onRequestIn(req, rnd) :
        (/\ req.method \in {SIP_METH_SUBSCRIBE, SIP_METH_REFER}
         /\ o.it # End
         /\ o.pre.pending_subscribe > 0) =>
          /\ \E n \in 0..9 : o.replies = <<Response(500, n)>>
          /\ ~o.ret
          /\ o.W.heap = heap
          /\ o.W.subs = subs
          /\ o.W.live = live
          /\ o.map = uas_cseq_map

\* C8: an inbound request that is no SUBSCRIBE and no REFER (so cannot create
\* a subscription) and whose role, event and id match no subscription of the
\* list that is not terminated is answered 481 and refused (false); no
\* subscription is created, uas_cseq_map and the usage count stay, and every
\* subscription that is not terminated stays as it is.
C8_NoSubscription481 ==
  run = "running" =>
    \A req \in Requests(uas_cseq + 1), rnd \in RandVals :
      LET event == strip_header_params(req.event_hf)
          id == get_header_param_id(req.event_hf)
          matches == {a \in SeqToSet(subs) :
                        /\ ~terminated(heap[a])
                        /\ heap[a].role = MatchRole(req, FALSE)
                        /\ heap[a].event = event
                        /\ (heap[a].id = id \/ (id = "" /\ event = "refer"))}
      IN  (req.method \notin {SIP_METH_SUBSCRIBE, SIP_METH_REFER}
           /\ matches = {}) =>
            \A o \in onRequestIn(req, rnd) :
              /\ o.replies # <<>>
              /\ o.replies[Len(o.replies)] = Response(481, -1)
              /\ ~o.ret
              /\ o.map = uas_cseq_map
              /\ o.W.usages = usages
              /\ o.W.used = used
              /\ o.W.live \subseteq live
              /\ \A a \in o.W.live : o.W.heap[a].born = heap[a].born
              /\ \A a \in live :
                   ~terminated(heap[a]) =>
                     /\ a \in o.W.live
                     /\ a \in SeqToSet(o.W.subs)
                     /\ o.W.heap[a] = heap[a]

\* C8, its case: a request was answered 481 (and nothing else) while the one
\* subscription there ever was is in the list, not terminated.
C8_Refused481 ==
  /\ run = "running"
  /\ last.op = "onRequestIn"
  /\ last.replies = <<Response(481, -1)>>
  /\ ~last.ret
  /\ used = 1
  /\ subs = <<1>>
  /\ ~terminated(heap[1])
  /\ usages = 1

\* C9: onReplyIn / onReplySent for a CSeq that is in the map: the entry is
\* removed and true returned; the subscription's replyFSM has run (its
\* usage decrements and its remote tag are the dialog's), and a subscription
\* that is terminated after it is neither in the list nor alive, any other
\* stays with what replyFSM made of it.  For a CSeq that is not in the map:
\* false is returned and the list, the objects, the maps, the usage count
\* and the remote tag stay.  (Of a handler that dereferences a deleted
\* object only the outcomes in which it returns are stated.)
C9_ReplyDispatch ==
  run = "running" =>
    \A side \in {"uac", "uas"} :
      LET map == IF side = "uac" THEN uac_cseq_map ELSE uas_cseq_map
          trans == IF side = "uac" THEN uac_trans ELSE uas_trans
      IN  \A c \in DOMAIN trans : \A in \in ReplyInputs(trans, c) :
            \A o \in (IF side = "uac" THEN onReplyIn(in.req, in.reply)
                                      ELSE onReplySent(in.req, in.reply)) :
              IF c \in DOMAIN map
              THEN /\ o.ret
                   /\ o.map = MapErase(map, c)
                   /\ (~o.ub) =>
                        LET it == map[c].it
                            r == replyFSM(heap[it], remote_tag, in.req, in.reply)
                        IN  /\ o.remote_tag = r.remote_tag
                            /\ o.W.usages = usages - r.dec
                            /\ IF terminated(r.sub)
                               THEN /\ it \notin SeqToSet(o.W.subs)
                                    /\ it \notin o.W.live
                               ELSE /\ o.W.heap[it] = r.sub
                                    /\ o.W.subs = subs
                                    /\ o.W.live = live
              ELSE /\ ~o.ret
                   /\ ~o.crash
                   /\ o.W = World
                   /\ o.map = map
                   /\ o.remote_tag = remote_tag

\* C9, its case: the reply to the initial SUBSCRIBE terminated the
\* subscription in NotifyWait; the list is empty and the usage count 0.
C9_InitialFailure ==
  /\ run = "running"
  /\ last.op = "onReplyIn"
  /\ last.ret
  /\ last.pdec
  /\ last.pre_state = SubState_notify_wait
  /\ last.asked = SubState_terminated
  /\ subs = <<>>
  /\ live = {}
  /\ usages = 0

\* C10: a subscription in NotifyWait has Timer N armed; with the timer
\* wheel at work a subscription in NotifyWait leaves NotifyWait; and Timer N
\* firing on a subscription in NotifyWait terminates it, decrements the
\* usage count by one and posts an event exactly if there is an event queue.
C10_TimerNEndsNotifyWait ==
  /\ [](\A a \in live :
          heap[a].sub_state = SubState_notify_wait => heap[a].timer_n)
  /\ \A a \in Addr :
       (a \in live /\ heap[a].sub_state = SubState_notify_wait)
         ~> ~(a \in live /\ heap[a].sub_state = SubState_notify_wait)
  /\ [][\A a \in Addr :
          (/\ TimerFire(a, RFC6665_TIMER_N)
           /\ heap[a].sub_state = SubState_notify_wait) =>
            /\ terminated(heap'[a])
            /\ usages' = usages - 1
            /\ last'.posted = ev_q]_vars

\* C10, its case: Timer N fired on a subscription in NotifyWait, with an
\* event queue.
C10_TimerNFired ==
  /\ run = "running"
  /\ last.op = "onTimer"
  /\ last.pre_state = SubState_notify_wait
  /\ last.posted
  /\ ev_q
  /\ last.it \in live
  /\ ~heap[last.it].timer_n
  /\ terminated(heap[last.it])

\* C11: a subscription that was destroyed (erased on a reply, reaped in
\* matching, deleted with the set) has neither Timer N nor the Expires timer
\* armed: no address without an object has a timer armed.
C11_DestroyedNoTimers ==
  \A a \in Addr \ live :
    /\ ~TimerArmed(heap[a], RFC6665_TIMER_N)
    /\ ~TimerArmed(heap[a], SUBSCRIPTION_EXPIRE)

\* C11, its case: a reply terminated a subscription in NotifyWait (Timer N
\* armed) and the subscription was deleted, the set going on.
C11_DeletedWithTimer ==
  /\ run = "running"
  /\ last.op \in {"onReplyIn", "onReplySent"}
  /\ last.ret
  /\ ~last.ub
  /\ last.pre_state = SubState_notify_wait
  /\ last.it \notin live
  /\ subs # <<>>

\* C12, as claimed: on no subscription is Timer N armed together with an
\* Expires timer that a successfully processed NOTIFY armed.
C12_TimerNExcludesNotifyExpires ==
  \A a \in live :
    ~(/\ heap[a].timer_n
      /\ heap[a].timer_expires.armed
      /\ heap[a].timer_expires.by = "Subscription-State")

\* C12, as the code has it: a successfully processed NOTIFY leaves Timer N
\* removed and the Expires timer armed from Subscription-State; the two come
\* to be armed together only in a step in which a SUBSCRIBE or REFER is
\* admitted or sent for the subscription (a refresh starts Timer N anew and
\* leaves the Expires timer running).
C12_TimerNBackOnlyOnRefresh ==
  [][/\ (/\ last'.op \in {"onReplyIn", "onReplySent"}
         /\ last'.asked \in {SubState_active, SubState_pending}
         /\ last'.it \in live') =>
           /\ ~heap'[last'.it].timer_n
           /\ heap'[last'.it].timer_expires.armed
           /\ heap'[last'.it].timer_expires.by = "Subscription-State"
     /\ \A a \in live' :
          (/\ heap'[a].timer_n
           /\ heap'[a].timer_expires.armed
           /\ heap'[a].timer_expires.by = "Subscription-State"
           /\ ~(/\ a \in live
                /\ heap[a].born = heap'[a].born
                /\ heap[a].timer_n
                /\ heap[a].timer_expires.armed
                /\ heap[a].timer_expires.by = "Subscription-State")) =>
            /\ last'.it = a
            /\ last'.ret
            /\ \/ /\ last'.op = "onRequestIn"
                  /\ uas_trans'[uas_cseq'].method
                       \in {SIP_METH_SUBSCRIBE, SIP_METH_REFER}
               \/ /\ last'.op = "onRequestSent"
                  /\ uac_trans'[uac_cseq'].method
                       \in {SIP_METH_SUBSCRIBE, SIP_METH_REFER}]_vars

\* C12, its case: a refresh was admitted or sent for a subscription that a
\* NOTIFY had made active or pending; both timers are armed.
C12_RefreshAfterNotify ==
  /\ run = "running"
  /\ last.op \in {"onRequestIn", "onRequestSent"}
  /\ last.ret
  /\ last.pre_state \in {SubState_active, SubState_pending}
  /\ last.it \in live
  /\ heap[last.it].timer_n
  /\ heap[last.it].timer_expires.armed
  /\ heap[last.it].timer_expires.by = "Subscription-State"

\* C13, as claimed: a SUBSCRIBE or REFER admitted or sent for a subscription
\* that is pending or active puts it in NotifyWait with Timer N armed.
C13_RefreshToNotifyWait ==
  [][(/\ last'.ret
      /\ last'.pre_state \in {SubState_pending, SubState_active}
      /\ \/ /\ last'.op = "onRequestIn"
            /\ uas_trans'[uas_cseq'].method
                 \in {SIP_METH_SUBSCRIBE, SIP_METH_REFER}
         \/ /\ last'.op = "onRequestSent"
            /\ uac_trans'[uac_cseq'].method
                 \in {SIP_METH_SUBSCRIBE, SIP_METH_REFER}) =>
       /\ heap'[last'.it].sub_state = SubState_notify_wait
       /\ heap'[last'.it].timer_n]_vars

\* C13, as the code has it: a SUBSCRIBE or REFER admitted or sent arms
\* Timer N; it puts a subscription that is in Init in NotifyWait and leaves
\* the state of one that is pending or active (or in NotifyWait) as it is.
C13_RefreshKeepsState ==
  [][(/\ last'.ret
      /\ \/ /\ last'.op = "onRequestIn"
            /\ uas_trans'[uas_cseq'].method
                 \in {SIP_METH_SUBSCRIBE, SIP_METH_REFER}
         \/ /\ last'.op = "onRequestSent"
            /\ uac_trans'[uac_cseq'].method
                 \in {SIP_METH_SUBSCRIBE, SIP_METH_REFER}) =>
       /\ heap'[last'.it].timer_n
       /\ heap'[last'.it].sub_state =
            IF last'.pre_state = SubState_init
            THEN SubState_notify_wait ELSE last'.pre_state]_vars

\* C13, its case: a refresh was admitted or sent for an active subscription,
\* which is active still, with Timer N armed.
C13_RefreshedActive ==
  /\ run = "running"
  /\ last.op \in {"onRequestIn", "onRequestSent"}
  /\ last.ret
  /\ last.pre_state = SubState_active
  /\ last.it \in live
  /\ heap[last.it].sub_state = SubState_active
  /\ heap[last.it].timer_n
  /\ heap[last.it].pending_subscribe > 0

\* C14: replyFSM on a failure reply (code >= 300) to a SUBSCRIBE or REFER,
\* for every subscription there is: from NotifyWait the state becomes
\* terminated for every code; from any other state it becomes terminated
\* exactly if the code is 405, 481, 489 or 501 and else stays;
\* pending_subscribe is one less in every case.
C14_FailureReply ==
  \A a \in live, code \in FailureCodes,
     method \in {SIP_METH_SUBSCRIBE, SIP_METH_REFER} :
    LET s == heap[a]
        req == [method |-> method, cseq |-> 1, event_hf |-> NoEventHF,
                sub_state_hf |-> SubStateHF("", HdrAbsent)]
        reply == [code |-> code, cseq_method |-> method,
                  expires |-> HdrAbsent, to_tag |-> RemoteTag]
        r == replyFSM(s, remote_tag, req, reply)
    IN  /\ r.pdec
        /\ r.sub.pending_subscribe = s.pending_subscribe - 1
        /\ r.sub.sub_state =
             IF s.sub_state = SubState_notify_wait
                \/ code \in {405, 481, 489, 501}
             THEN SubState_terminated ELSE s.sub_state
        /\ r.dec = IF r.sub.sub_state # s.sub_state THEN 1 ELSE 0

\* C14, its case: a failure reply to a refresh was dispatched to an active
\* subscription, which is active still, its pending_subscribe back at 0.
C14_RefreshFailedStillActive ==
  /\ run = "running"
  /\ last.op \in {"onReplyIn", "onReplySent"}
  /\ last.failed
  /\ last.pre_state = SubState_active
  /\ last.asked = ""
  /\ last.it \in live
  /\ heap[last.it].sub_state = SubState_active
  /\ heap[last.it].pending_subscribe = 0


\* C15: a 2xx reply to a NOTIFY moves a subscription that is not terminated
\* to Active iff the expires parameter of the NOTIFY's Subscription-State is
\* greater than zero and the token is "active", to Pending iff it is greater
\* than zero and the token is "pending", and to Terminated in every other
\* case (expires zero, negative or absent included); on the two outcomes
\* that are not terminal Timer N is removed and the Expires timer is armed
\* to the expires parameter.
C15_NotifyReply ==
  \A a \in live, ss \in SubStateHFs, code \in {200, 202} :
    LET s == heap[a]
        req == [method |-> SIP_METH_NOTIFY, cseq |-> 1, event_hf |-> NoEventHF,
                sub_state_hf |-> ss]
        reply == [code |-> code, cseq_method |-> SIP_METH_NOTIFY,
                  expires |-> HdrAbsent, to_tag |-> RemoteTag]
        r == replyFSM(s, remote_tag, req, reply)
        positive == ss.expires.kind = "num" /\ ss.expires.val > 0
        want == IF positive /\ ss.token = "active" THEN SubState_active
                ELSE IF positive /\ ss.token = "pending" THEN SubState_pending
                ELSE SubState_terminated
    IN  ~terminated(s) =>
          /\ r.sub.sub_state = want
          /\ want # SubState_terminated =>
               /\ ~r.sub.timer_n
               /\ r.sub.timer_expires =
                    [armed |-> TRUE, dur |-> ss.expires.val,
                     by |-> "Subscription-State"]


\* C16: a 2xx reply to a SUBSCRIBE or REFER with an Expires value E > 0 arms
\* the Expires timer for E seconds and changes nothing else; with E = 0 it
\* changes no timer and no state; with Expires missing or unreadable it
\* terminates the subscription if the method is SUBSCRIBE and leaves it as
\* it is if the method is REFER; pending_subscribe is decremented by one in
\* each of these cases.
C16_SuccessReply ==
  \A a \in live, e \in ExpiresHFs, code \in {200, 202},
     method \in {SIP_METH_SUBSCRIBE, SIP_METH_REFER} :
    LET s == heap[a]
        req == [method |-> method, cseq |-> 1, event_hf |-> NoEventHF,
                sub_state_hf |-> SubStateHF("", HdrAbsent)]
        reply == [code |-> code, cseq_method |-> method, expires |-> e,
                  to_tag |-> RemoteTag]
        r == replyFSM(s, remote_tag, req, reply)
        counted == [s EXCEPT !.pending_subscribe = @ - 1]
    IN  /\ r.pdec
        /\ r.sub.pending_subscribe = s.pending_subscribe - 1
        /\ (e.kind = "num" /\ e.val > 0) =>
             /\ r.sub = [counted EXCEPT !.timer_expires =
                           [armed |-> TRUE, dur |-> e.val, by |-> "Expires"]]
             /\ r.dec = 0
        /\ (e.kind = "num" /\ e.val = 0) => r.sub = counted /\ r.dec = 0
        /\ (e.kind # "num" /\ method = SIP_METH_SUBSCRIBE) =>
             /\ r.sub = [counted EXCEPT !.sub_state = SubState_terminated]
             /\ r.dec = IF terminated(s) THEN 0 ELSE 1
        /\ (e.kind # "num" /\ method = SIP_METH_REFER) =>
             r.sub = counted /\ r.dec = 0

\* a 2xx reply to a SUBSCRIBE without a readable Expires was dispatched to an
\* active subscription, which was terminated and erased
C16_NoExpiresTerminated ==
  /\ run = "running"
  /\ last.op \in {"onReplyIn", "onReplySent"}
  /\ last.pdec /\ ~last.failed
  /\ last.pre_state = SubState_active
  /\ last.asked = SubState_terminated
  /\ last.it \notin live
  /\ usages = 0


\* C17: a timer expiry (Timer N or Expires) sets the subscription's state to
\* Terminated and posts a wake event exactly when there is an event queue;
\* the list, the other objects and both CSeq maps stay as they are, and of
\* the object only the state changes (the timer that fired is no longer
\* armed).  A terminated subscription of the list leaves it only when a
\* later match attempt selects it, and then no object of its making is in
\* the list that the step leaves (a replacement is made after the removal),
\* or when a reply is dispatched to it.
C17_TimerOnlyMarks ==
  [][/\ last'.op = "onTimer" =>
          LET a == last'.it
          IN  /\ subs' = subs /\ live' = live
              /\ uac_cseq_map' = uac_cseq_map /\ uas_cseq_map' = uas_cseq_map
              /\ \A b \in Addr \ {a} : heap'[b] = heap[b]
              /\ terminated(heap'[a])
              /\ \E timer_id \in TimerIds :
                   /\ TimerArmed(heap[a], timer_id)
                   /\ heap'[a] = [(IF timer_id = RFC6665_TIMER_N
                                   THEN [heap[a] EXCEPT !.timer_n = FALSE]
                                   ELSE [heap[a] EXCEPT !.timer_expires = NoTimer])
                                    EXCEPT !.sub_state = SubState_terminated]
              /\ last'.posted = ev_q
     /\ \A a \in live :
          (/\ terminated(heap[a])
           /\ run' = "running"
           /\ ~(a \in live' /\ heap'[a].born = heap[a].born)) =>
            /\ \A b \in live' : heap'[b].born # heap[a].born
            /\ \/ last'.op \in {"onReplyIn", "onReplySent"} /\ last'.it = a
               \/ /\ last'.op = "onRequestIn"
                  /\ remote_tag # ""
                  /\ \E req \in Requests(uas_cseq') :
                       /\ req.method \in {SIP_METH_SUBSCRIBE, SIP_METH_NOTIFY}
                       /\ req.method = uas_trans'[uas_cseq'].method
                       /\ FirstMatch(World, req, FALSE) = a
               \/ /\ last'.op = "onRequestSent"
                  /\ remote_tag # ""
                  /\ \E req \in Requests(uac_cseq') :
                       /\ req.method \in {SIP_METH_SUBSCRIBE, SIP_METH_NOTIFY}
                       /\ req.method = uac_trans'[uac_cseq'].method
                       /\ FirstMatch(World, req, TRUE) = a]_vars

\* a timer fired on a subscription that a CSeq map refers to: it is
\* terminated, still in the list, the entry still there, the queue woken
C17_TerminatedStillListed ==
  /\ run = "running"
  /\ last.op = "onTimer"
  /\ last.posted
  /\ last.pre_state = SubState_active
  /\ last.it \in SeqToSet(subs)
  /\ terminated(heap[last.it])
  /\ \E c \in DOMAIN uac_cseq_map : uac_cseq_map[c].it = last.it


\* C18: every read and every write of a subscription's state is made with
\* its state lock held, on the timer thread (onTimer) and on the protocol
\* paths: the reply dispatch with replyFSM, the matching and the request
\* FSM of an inbound request, AmSipSubscription::terminate.  Stated for the
\* subscriptions with a timer armed, whose state the timer thread may write
\* at any time.
C18_StateUnderLock ==
  run = "running" =>
    \A a \in live :
      (\E timer_id \in TimerIds : TimerArmed(heap[a], timer_id)) =>
        /\ Guarded(onTimer_acc(heap[a]))
        /\ Guarded(TerminateFrom_acc(heap[a]))
        /\ \A c \in DOMAIN uac_cseq_map \cap DOMAIN uac_trans :
             uac_cseq_map[c].it = a =>
               \A in \in ReplyInputs(uac_trans, c) :
                 Guarded(DispatchReply_acc(heap[a], in.req, in.reply))
        /\ \A c \in DOMAIN uas_cseq_map \cap DOMAIN uas_trans :
             uas_cseq_map[c].it = a =>
               \A in \in ReplyInputs(uas_trans, c) :
                 Guarded(DispatchReply_acc(heap[a], in.req, in.reply))
        /\ \A req \in Requests(uas_cseq + 1) :
             (/\ remote_tag # ""
              /\ req.method \in {SIP_METH_SUBSCRIBE, SIP_METH_NOTIFY}
              /\ FirstMatch(World, req, FALSE) = a) =>
               Guarded(onRequestIn_acc(heap[a], req))


\* C19: for an inbound request the set sends at most one SIP response, and
\* that one is a 481, a 500 or a 501.
C19_AtMostOneResponse ==
  (run = "running" /\ last.op = "onRequestIn") =>
    /\ Len(last.replies) <= 1
    /\ \A i \in 1..Len(last.replies) : last.replies[i].code \in {481, 500, 501}


\* C20: an inbound SUBSCRIBE or REFER refused with 500 has no effect on the
\* subscription afterwards: when the 500 is dispatched (onReplySent) for the
\* refused CSeq the objects and the list stay as they are (a subscription in
\* NotifyWait is not terminated) and pending_subscribe is not decremented.
C20_RefusedReplyNoEffect ==
  [][\A c \in DOMAIN uas_trans :
       (/\ uas_trans[c].core = 500
        /\ last'.op = "onReplySent"
        /\ c \notin DOMAIN uas_trans'
        /\ run' = "running") =>
         /\ heap' = heap
         /\ subs' = subs
         /\ live' = live
         /\ usages' = usages
         /\ ~last'.pdec]_vars

====
